---- MODULE Spec2Model ----
(***************************************************************************)
(* CPET: the Monte Carlo path-sampling engine of System.cpp.               *)
(*                                                                         *)
(* System::System builds the configuration from an options file and a PDB  *)
(* file; System::calculateTopology runs _numberOfSamples trials of         *)
(* System::_sample, serially or on procs worker threads, and returns the   *)
(* vector of PathSample values.                                            *)
(*                                                                         *)
(* Numbers.  A double is a pair <<n, d>> with d >= 0 in lowest terms: the  *)
(* rational n/d when d > 0, +inf = <<1,0>>, -inf = <<-1,0>> and NaN =      *)
(* <<0,0>>, so that a division by zero yields what IEEE-754 yields.        *)
(* A Vector3d is a triple of doubles.  All inputs (charge coordinates,     *)
(* random points) lie on the grid of integer points of the x axis, where   *)
(* every norm the code takes is the square root of a perfect square.       *)
(***************************************************************************)
EXTENDS Integers, Sequences, FiniteSets, TLC

\* ------------------------------------------------------------------ bounds
\* Largest sample count an options file of the model configures.
MaxSamples == 2
\* Largest worker count (procs) calculateTopology is called with.
MaxProcs == 2
\* Largest value _randomDistance() returns in the model.
MaxRandomDistance == 5

\* Largest |x| of a charge in the PDB files of the single-trial specification.
MaxCoordinate == 2

\* ------------------------------------------------------------- arithmetic
\* The element of a singleton.  Only({e(x) : x \in {v}}) is e with x bound to
\* the value of v: v is evaluated first, as a C++ statement evaluates a
\* local's initialiser before the statements that follow.
Only(S) == CHOOSE r \in S : TRUE

Abs(i) == IF i < 0 THEN -i ELSE i

Sgn(i) == IF i < 0 THEN -1 ELSE IF i = 0 THEN 0 ELSE 1

RECURSIVE Gcd(_, _)
Gcd(a, b) == IF b = 0 THEN a ELSE Gcd(b, a % b)

\* floor of the square root; exact on perfect squares
RECURSIVE ISqrt(_)
ISqrt(k) ==
    IF k < 256 THEN CHOOSE r \in 0..15 : r * r <= k /\ k < (r + 1) * (r + 1)
    ELSE Only({CHOOSE r \in s..(s + 15) : r * r <= k /\ k < (r + 1) * (r + 1) :
               s \in {16 * ISqrt(k \div 256)}})

\* The double n/d (d of either sign), in lowest terms.
Dbl(n, d) ==
    IF d = 0 THEN <<Sgn(n), 0>>
    ELSE LET g == Gcd(Abs(n), Abs(d))
         IN  <<(Sgn(d) * n) \div g, Abs(d) \div g>>

NaN == <<0, 0>>
D(i) == <<i, 1>>
IsNaN(a) == a = NaN
IsFinite(a) == a[2] # 0

DNeg(a) == <<-a[1], a[2]>>
DAdd(a, b) == Dbl(a[1] * b[2] + b[1] * a[2], a[2] * b[2])
DSub(a, b) == DAdd(a, DNeg(b))
DMul(a, b) == Dbl(a[1] * b[1], a[2] * b[2])
\* a / b; a zero divisor counts as +0: x/0 = +-inf, 0/0 = NaN
DDiv(a, b) == Dbl(a[1] * b[2] * (IF b[1] < 0 THEN -1 ELSE 1), a[2] * Abs(b[1]))
DSqrt(a) ==
    IF a[1] < 0 \/ IsNaN(a) THEN NaN ELSE Dbl(ISqrt(a[1]), ISqrt(a[2]))
\* a <= b as IEEE compares: false when either side is NaN
DLe(a, b) == ~IsNaN(a) /\ ~IsNaN(b) /\ a[1] * b[2] <= b[1] * a[2]

\* ------------------------------------------------------- Eigen::Vector3d
Vec(x, y, z) == <<D(x), D(y), D(z)>>
VZero == Vec(0, 0, 0)
VAdd(u, v) == <<DAdd(u[1], v[1]), DAdd(u[2], v[2]), DAdd(u[3], v[3])>>
VSub(u, v) == <<DSub(u[1], v[1]), DSub(u[2], v[2]), DSub(u[3], v[3])>>
VScale(a, v) == <<DMul(a, v[1]), DMul(a, v[2]), DMul(a, v[3])>>
VDiv(v, a) == <<DDiv(v[1], a), DDiv(v[2], a), DDiv(v[3], a)>>
VNorm(v) == DSqrt(DAdd(DAdd(DMul(v[1], v[1]), DMul(v[2], v[2])), DMul(v[3], v[3])))
VCross(u, v) ==
    <<DSub(DMul(u[2], v[3]), DMul(u[3], v[2])),
      DSub(DMul(u[3], v[1]), DMul(u[1], v[3])),
      DSub(DMul(u[1], v[2]), DMul(u[2], v[1]))>>
VFinite(v) == \A i \in 1..3 : IsFinite(v[i])

\* --------------------------------------------------------------- constants
\* 4.0 * M_PI * PERM_SPACE = 0.0694..., as the rational 2/29
FourPiPermSpace == <<2, 29>>

\* ----------------------------------------------------------- field (pure)
\* the loop body of electricField: result += (pc.charge * d) / (dNorm^3)
FieldTerm(position, pc) ==
    Only({Only({VDiv(VScale(pc.charge, d), DMul(DMul(dNorm, dNorm), dNorm)) :
                dNorm \in {VNorm(d)}}) :
          d \in {VSub(position, pc.coordinate)}})

RECURSIVE CoulombSum(_, _)
CoulombSum(charges, position) ==
    IF charges = <<>> THEN VZero
    ELSE Only({VAdd(result, term) :
               result \in {CoulombSum(Tail(charges), position)},
               term \in {FieldTerm(position, Head(charges))}})

\* result /= (1.0 / (4.0 * M_PI * PERM_SPACE))
ScaleField(result) == VDiv(result, DDiv(D(1), FourPiPermSpace))

electricFieldOf(charges, position) ==
    Only({ScaleField(result) : result \in {CoulombSum(charges, position)}})

electricField(position, charges) == electricFieldOf(charges, position)

\* ------------------------------------------------- region (Volume.h: Box)
nullptr == [kind |-> "nullptr", dims |-> <<>>]
Box(dims) == [kind |-> "Box", dims |-> <<D(dims[1]), D(dims[2]), D(dims[3])>>]

DAbs(a) == <<Abs(a[1]), a[2]>>

\* Box::isInside: |p.axis| <= extent/2 on every axis
isInside(region, p) ==
    \A i \in 1..3 : DLe(DAbs(p[i]), DDiv(region.dims[i], D(2)))

\* Largest coordinate of the integer grid randomPoint draws from.
MaxGrid == 2
\* Box::randomPoint: the grid points of the box
GridAxis(region, i) ==
    {c \in -MaxGrid..MaxGrid : isInside(region, [VZero EXCEPT ![i] = D(c)])}
RandomPoints(region) ==
    {Vec(px, py, pz) : px \in GridAxis(region, 1), py \in GridAxis(region, 2),
                       pz \in GridAxis(region, 3)}

\* ------------------------------------------------------ one trial (pure)
\* the values _randomDistance() returns
RandomDistances == 0..MaxRandomDistance

\* length of one integration step
StepLength == 1

\* _next: a step of StepLength along the normalised field
_next(p, charges) ==
    Only({Only({Only({VAdd(p, step) : step \in {VScale(D(StepLength), VDiv(E, norm))}}) :
                norm \in {VNorm(E)}}) :
          E \in {electricField(p, charges)}})

\* _curvature from delta_t on; field_1 is electricField(alpha_1)
CurvatureOf(alpha_0, alpha_prime, alpha_1, field_1) ==
    Only({Only({DDiv(VNorm(VCross(alpha_prime, alpha_prime_prime)),
                     DMul(DMul(alpha_prime_norm, alpha_prime_norm), alpha_prime_norm)) :
                alpha_prime_prime \in {VDiv(VSub(field_1, alpha_prime), delta_t)},
                alpha_prime_norm \in {VNorm(alpha_prime)}}) :
          delta_t \in {DDiv(VNorm(VSub(alpha_1, alpha_0)), VNorm(alpha_prime))}})

_curvature(alpha_0, charges) ==
    Only({Only({CurvatureOf(alpha_0, alpha_prime, alpha_1, field_1) :
                field_1 \in {electricField(alpha_1, charges)}}) :
          alpha_prime \in {electricField(alpha_0, charges)},
          alpha_1 \in {_next(alpha_0, charges)}})

\* mutant: the loop tests the region on every second iteration only
LoopTest_RegionEverySecondStep(region, finalPosition, steps, maxSteps) ==
    IF isInside(region, finalPosition) \/ steps % 2 = 1
    THEN [go |-> steps + 1 < maxSteps, steps |-> steps + 1]
    ELSE [go |-> FALSE, steps |-> steps]

\* while (_region->isInside(finalPosition) && ++steps < maxSteps): the test,
\* as [go, steps]: steps is incremented only when the left operand holds
LoopTest(region, finalPosition, steps, maxSteps) ==
    IF isInside(region, finalPosition)
    THEN [go |-> steps + 1 < maxSteps, steps |-> steps + 1]
    ELSE [go |-> FALSE, steps |-> steps]

\* the integration loop of _sample, run to its end from (finalPosition, steps)
RECURSIVE Trace(_, _, _, _, _)
Trace(region, charges, finalPosition, steps, maxSteps) ==
    Only({IF t.go
          THEN Only({Trace(region, charges, next, t.steps, maxSteps) :
                     next \in {_next(finalPosition, charges)}})
          ELSE [finalPosition |-> finalPosition, steps |-> t.steps] :
          t \in {LoopTest(region, finalPosition, steps, maxSteps)}})

\* the return statement of _sample
SampleValue(initialPosition, finalPosition, charges) ==
    Only({[distance  |-> VNorm(VSub(finalPosition, initialPosition)),
           curvature |-> DDiv(DAdd(curvature_final, curvature_initial), D(2))] :
          curvature_final \in {_curvature(finalPosition, charges)},
          curvature_initial \in {_curvature(initialPosition, charges)}})

\* value-initialised PathSample; trial is history: the number of the
\* _sample() call that produced the value, 0 for a value nobody computed
DefaultSample == [distance |-> D(0), curvature |-> D(0), trial |-> 0]

\* std::vector<PathSample>(n): n value-initialised elements
PresizedVector(n) == [i \in 1..n |-> DefaultSample]

\* mutant: a non-finite value is dropped instead of appended
push_back_FiniteOnly(vec, s) ==
    IF IsFinite(s.distance) /\ IsFinite(s.curvature) THEN Append(vec, s) ELSE vec

push_back(vec, s) == Append(vec, s)

\* mutant: samples-- >= 0
DecrementTest_AtLeastZero(pre) == pre >= 0

\* the loop test (samples-- > 0), on the value read before the decrement
DecrementTest(pre) == pre > 0

\* -------------------------------------------------- files (load phase)
OptionLine(key, shape, vec, n) == [key |-> key, shape |-> shape, vec |-> vec, n |-> n]
CenterLine(v) == OptionLine("center", "", v, 0)
V1Line(v) == OptionLine("v1", "", v, 0)
V2Line(v) == OptionLine("v2", "", v, 0)
VolumeLine(shape, dims) == OptionLine("volume", shape, dims, 0)
SampleLine(n) == OptionLine("sample", "", <<0, 0, 0>>, n)
OtherLine == OptionLine("#", "", <<0, 0, 0>>, 0)

PdbLine(rec, x, q) == [rec |-> rec, coordinate |-> Vec(x, 0, 0), charge |-> D(q)]

Identity == <<Vec(1, 0, 0), Vec(0, 1, 0), Vec(0, 0, 1)>>

\* the member initialiser list of System::System
NewSystem ==
    [pointCharges |-> <<>>, center |-> VZero, basisMatrix |-> Identity,
     region |-> nullptr, numberOfSamples |-> 0]

\* integer widths, scaled down: int and std::atomic_int have IntBits bits,
\* size_t has SizeBits bits, a PathSample takes SizeOfPathSample bytes
IntBits == 3
SizeBits == 8
SizeOfPathSample == 16
IntMin == -(2 ^ (IntBits - 1))
IntMax == 2 ^ (IntBits - 1) - 1

\* static_cast<size_t>(i)
ToSize(i) == i % (2 ^ SizeBits)

\* mutant: the counter is one bit narrower than int
ToInt_Narrower(n) ==
    LET m == n % (2 ^ (IntBits - 1))
    IN  IF m >= 2 ^ (IntBits - 2) THEN m - 2 ^ (IntBits - 1) ELSE m

\* the conversion to int that initialises and updates std::atomic_int
ToInt(n) ==
    LET m == n % (2 ^ IntBits)
    IN  IF m >= 2 ^ (IntBits - 1) THEN m - 2 ^ IntBits ELSE m

\* std::vector<PathSample>::max_size()
max_size == (2 ^ (SizeBits - 1) - 1) \div SizeOfPathSample

\* what std::vector<PathSample>(n) throws for n > max_size()
VectorThrows == "std::length_error"

\* mutant: a volume line of another shape resets the region
OptionsLambda_OtherShapeResets(sys, line) ==
    IF line.key = "center"
    THEN [sys EXCEPT !.center = Vec(line.vec[1], line.vec[2], line.vec[3])]
    ELSE IF line.key = "v1"
    THEN [sys EXCEPT !.basisMatrix[1] = Vec(line.vec[1], line.vec[2], line.vec[3])]
    ELSE IF line.key = "v2"
    THEN [sys EXCEPT !.basisMatrix[2] = Vec(line.vec[1], line.vec[2], line.vec[3])]
    ELSE IF line.key = "volume"
    THEN [sys EXCEPT !.region = IF line.shape = "box" THEN Box(line.vec) ELSE nullptr]
    ELSE IF line.key = "sample"
    THEN [sys EXCEPT !.numberOfSamples = ToSize(line.n)]
    ELSE sys

\* the lambda of _loadOptions, on one line
OptionsLambda(sys, line) ==
    IF line.key = "center"
    THEN [sys EXCEPT !.center = Vec(line.vec[1], line.vec[2], line.vec[3])]
    ELSE IF line.key = "v1"
    THEN [sys EXCEPT !.basisMatrix[1] = Vec(line.vec[1], line.vec[2], line.vec[3])]
    ELSE IF line.key = "v2"
    THEN [sys EXCEPT !.basisMatrix[2] = Vec(line.vec[1], line.vec[2], line.vec[3])]
    ELSE IF line.key = "volume"
    THEN IF line.shape = "box" THEN [sys EXCEPT !.region = Box(line.vec)] ELSE sys
    ELSE IF line.key = "sample"
    THEN [sys EXCEPT !.numberOfSamples = ToSize(line.n)]
    ELSE sys

RECURSIVE ForEachOptionLine(_, _)
ForEachOptionLine(sys, lines) ==
    IF lines = <<>> THEN sys
    ELSE ForEachOptionLine(OptionsLambda(sys, Head(lines)), Tail(lines))

_loadOptions(sys, optionsFile) ==
    LET t == ForEachOptionLine(sys, optionsFile)
    IN  [t EXCEPT !.basisMatrix[3] = VCross(t.basisMatrix[1], t.basisMatrix[2])]

RECURSIVE PdbCharges(_)
PdbCharges(lines) ==
    IF lines = <<>> THEN <<>>
    ELSE IF Head(lines).rec = "ATOM" \/ Head(lines).rec = "HETATM"
    THEN <<[coordinate |-> Head(lines).coordinate, charge |-> Head(lines).charge]>>
             \o PdbCharges(Tail(lines))
    ELSE PdbCharges(Tail(lines))

_loadPDB(sys, proteinFile) ==
    [sys EXCEPT !.pointCharges = sys.pointCharges \o PdbCharges(proteinFile)]

VDot(u, v) == DAdd(DAdd(DMul(u[1], v[1]), DMul(u[2], v[2])), DMul(u[3], v[3]))

\* pc.coordinate -= _center, for every charge
RECURSIVE Translated(_, _)
Translated(charges, center) ==
    IF charges = <<>> THEN <<>>
    ELSE <<[coordinate |-> VSub(Head(charges).coordinate, center),
            charge |-> Head(charges).charge]>> \o Translated(Tail(charges), center)

_translateToCenter(sys) ==
    [sys EXCEPT !.pointCharges = Translated(sys.pointCharges, sys.center)]

\* pc.coordinate = _basisMatrix.transpose() * pc.coordinate, for every charge
RECURSIVE InBasis(_, _)
InBasis(charges, m) ==
    IF charges = <<>> THEN <<>>
    ELSE <<[coordinate |-> <<VDot(m[1], Head(charges).coordinate),
                             VDot(m[2], Head(charges).coordinate),
                             VDot(m[3], Head(charges).coordinate)>>,
            charge |-> Head(charges).charge]>> \o InBasis(Tail(charges), m)

_toUserBasis(sys) ==
    [sys EXCEPT !.pointCharges = InBasis(sys.pointCharges, sys.basisMatrix)]

\* what the two checks of the constructor throw
RegionCheckThrows == "std::exception"
ChargesCheckThrows == "std::exception"

\* the options files and PDB files of the model; the random points of
\* UnitBox are the origin alone, those of TheBox are x = -1, 0, 1
UnitBox == <<1, 1, 1>>
TheBox == <<2, 1, 1>>
OptionsFiles ==
    {<<VolumeLine("box", UnitBox), SampleLine(n)>> : n \in 0..MaxSamples}
    \cup {<<SampleLine(1)>>,
          <<VolumeLine("sphere", <<2, 0, 0>>), SampleLine(1)>>,
          <<CenterLine(<<1, 0, 0>>), OtherLine, SampleLine(1), VolumeLine("box", TheBox)>>}
ProteinFiles ==
    {<<PdbLine("REMARK", 0, 0)>>,
     <<PdbLine("REMARK", 0, 0), PdbLine("ATOM", -2, -1)>>}

\* System::System after _loadOptions has returned a: the two checks, the
\* PDB file, the change of frame
AfterOptions(a, proteinFile) ==
    LET b == _loadPDB(a, proteinFile)
    IN  IF a.region = nullptr
        THEN [status |-> "thrown", thrown |-> RegionCheckThrows,
              failedCheck |-> "region", sys |-> a]
        ELSE IF b.pointCharges = <<>>
        THEN [status |-> "thrown", thrown |-> ChargesCheckThrows,
              failedCheck |-> "charges", sys |-> b]
        ELSE [status |-> "built", thrown |-> "", failedCheck |-> "",
              sys |-> _toUserBasis(_translateToCenter(b))]

\* System::System(proteinFile, optionsFile): the outcome and the members
Constructed(proteinFile, optionsFile) ==
    AfterOptions(_loadOptions(NewSystem, optionsFile), proteinFile)

\* _sample from the random point p on: the loop, then the return statement
Trial(region, charges, p, maxSteps) ==
    Only({SampleValue(p, e.finalPosition, charges) :
          e \in {Trace(region, charges, p, 0, maxSteps)}})

\* Trial over the random points and distances of a system, as a table
TrialTable(sys) ==
    IF sys.region = nullptr THEN <<>>
    ELSE [k \in RandomPoints(sys.region) \X RandomDistances |->
             Trial(sys.region, sys.pointCharges, k[1], k[2])]

\* ------------------------------------------------------------------ state
VARIABLES
    status,            \* "unbuilt", "built" (a System exists) or "thrown"
    thrown,            \* the exception the constructor or a call threw, "" when none
    failedCheck,       \* history: the check that threw, "region" or "charges"
    _pointCharges, _center, _basisMatrix, _region, _numberOfSamples,
    procs,             \* the argument of calculateTopology
    pc,                \* the calling thread inside calculateTopology
    sampleResults,     \* the local vector of calculateTopology
    samples,           \* the loop counter: size_t (serial), atomic_int (parallel)
    shared_vector,     \* the guarded vector of the parallel path
    vector_lock,       \* the thread holding shared_vector's lock, NoThread if free
    _mutex_volume,     \* the thread holding _mutex_volume, NoThread if free
    launched,          \* workers.size()
    frame,             \* per thread: its place in the loop and the locals of _sample
    returned,          \* the vector calculateTopology returned
    nTrials,           \* history: the number of _sample() calls of this call
    computed,          \* history: the values those calls returned
    field,             \* history: the last electricField evaluation of _curvature
    trials,            \* TrialTable of the constructed System, computed once
    stream,            \* the options file being read: its lines, the number read
    generator,         \* per storage slot: the generator in it, NoGenerator if none
    obtained           \* history, per thread: the generators handed to it

config == <<_pointCharges, _center, _basisMatrix, _region, _numberOfSamples>>

vars ==
    <<status, thrown, failedCheck, _pointCharges, _center, _basisMatrix, _region,
      _numberOfSamples, procs, pc, sampleResults, samples, shared_vector, vector_lock,
      _mutex_volume, launched, frame, returned, nTrials, computed, field, trials,
      stream, generator, obtained>>

\* thread 0 is the caller of calculateTopology, 1..procs are the workers
Threads == 0..MaxProcs
NoThread == -1

\* std::unique_ptr<std::mt19937> holding nullptr
NoGenerator == 0

\* mutant: static without thread_local, one slot for the whole program
GeneratorSlot_Static(t) == 0

\* static thread_local: each thread has its own slot
GeneratorSlot(t) == t

\* std::make_unique<std::mt19937>(...) on thread t: a new object, named
\* after the thread that allocates it
MakeGenerator(t) == t + 1

\* randomNumberGenerator() on thread t: the slots after the call
randomNumberGenerator(gen, t) ==
    IF gen[GeneratorSlot(t)] = NoGenerator
    THEN [gen EXCEPT ![GeneratorSlot(t)] = MakeGenerator(t)]
    ELSE gen

\* no file is open
NoStream == [lines |-> <<>>, read |-> 0]

IdleFrame ==
    [pc |-> "idle", pre |-> 0, trial |-> 0, maxSteps |-> 0,
     initialPosition |-> VZero, finalPosition |-> VZero, steps |-> 0,
     advanced |-> 0,    \* history: the calls of _next the loop has made
     s |-> DefaultSample]

NoField == [position |-> VZero, value |-> VZero]

Init ==
    /\ status = "unbuilt" /\ thrown = "" /\ failedCheck = ""
    /\ _pointCharges = NewSystem.pointCharges
    /\ _center = NewSystem.center
    /\ _basisMatrix = NewSystem.basisMatrix
    /\ _region = NewSystem.region
    /\ _numberOfSamples = NewSystem.numberOfSamples
    /\ procs = 0 /\ pc = "idle"
    /\ sampleResults = <<>> /\ samples = 0 /\ shared_vector = <<>>
    /\ vector_lock = NoThread /\ _mutex_volume = NoThread
    /\ launched = 0
    /\ frame = [t \in Threads |-> IdleFrame]
    /\ returned = <<>> /\ nTrials = 0 /\ computed = {} /\ field = NoField
    /\ trials = <<>>
    /\ stream = NoStream
    /\ generator = [t \in Threads |-> NoGenerator]
    /\ obtained = [t \in Threads |-> {}]

call == <<procs, pc, sampleResults, samples, shared_vector, vector_lock, _mutex_volume,
          launched, frame, returned, nTrials, computed, field>>

SetConfig(sys) ==
    /\ _pointCharges' = sys.pointCharges
    /\ _center' = sys.center
    /\ _basisMatrix' = sys.basisMatrix
    /\ _region' = sys.region
    /\ _numberOfSamples' = sys.numberOfSamples

\* const int maxSteps = _randomDistance(), the first statement of _sample:
\* the draw takes the generator randomNumberGenerator() returns to thread t
Draw(t) ==
    \E g \in {randomNumberGenerator(generator, t)} :
        /\ generator' = g
        /\ obtained' = [obtained EXCEPT ![t] = @ \cup {g[GeneratorSlot(t)]}]

\* the thread function returns: a worker's thread_local storage ends with
\* the thread; the calling thread lives on
ThreadEnd(t) ==
    IF t = 0
    THEN UNCHANGED <<generator, obtained>>
    ELSE /\ generator' = [generator EXCEPT ![t] = NoGenerator]
         /\ obtained' = [obtained EXCEPT ![t] = {}]

\* System::System(proteinFile, optionsFile)
Construct(proteinFile, optionsFile) ==
    /\ status = "unbuilt"
    /\ \E c \in {Constructed(proteinFile, optionsFile)} :
        /\ status' = c.status
        /\ thrown' = c.thrown
        /\ failedCheck' = c.failedCheck
        /\ SetConfig(c.sys)
        /\ trials' = IF c.status = "built" THEN TrialTable(c.sys) ELSE <<>>
    /\ UNCHANGED <<call, stream, generator, obtained>>

\* calculateTopology(procs): entry, up to the branch on procs; the
\* constructor of sampleResults throws when it is asked for more than
\* max_size() elements
Call(p) ==
    /\ status = "built"
    /\ pc \in {"idle", "returned", "threw"}
    /\ procs' = p
    /\ IF _numberOfSamples > max_size
       THEN /\ pc' = "threw"
            /\ thrown' = VectorThrows
            /\ UNCHANGED <<sampleResults, samples, nTrials, computed, returned,
                           launched, shared_vector, frame>>
       ELSE /\ thrown' = thrown
            /\ sampleResults' = PresizedVector(_numberOfSamples)
            /\ nTrials' = 0 /\ computed' = {} /\ returned' = <<>>
            /\ launched' = 0
            /\ IF p = 1
               THEN /\ pc' = "serial"
                    /\ samples' = _numberOfSamples
                    /\ shared_vector' = <<>>
                    /\ frame' = [t \in Threads |->
                                    IF t = 0 THEN [IdleFrame EXCEPT !.pc = "test"]
                                    ELSE IdleFrame]
               ELSE /\ pc' = "parallel"
                    /\ samples' = ToInt(_numberOfSamples)
                    /\ shared_vector' = PresizedVector(_numberOfSamples)
                    /\ frame' = [t \in Threads |-> IdleFrame]
    /\ UNCHANGED <<stream, generator, obtained, trials, status, failedCheck, config,
                   vector_lock, _mutex_volume, field>>

\* mutant: the loop counts the member down: while (_numberOfSamples-- > 0)
Decrement_OnMember(t) ==
    /\ frame[t].pc = "test"
    /\ _numberOfSamples' = _numberOfSamples - 1
    /\ IF DecrementTest(_numberOfSamples)
       THEN /\ nTrials' = nTrials + 1
            /\ frame' = [frame EXCEPT ![t] = [IdleFrame EXCEPT !.pc = "lock_volume",
                            !.pre = _numberOfSamples, !.trial = nTrials + 1]]
       ELSE /\ nTrials' = nTrials
            /\ frame' = [frame EXCEPT ![t] = [IdleFrame EXCEPT !.pc = "done",
                            !.pre = _numberOfSamples]]
    /\ IF DecrementTest(_numberOfSamples) THEN Draw(t) ELSE ThreadEnd(t)
    /\ UNCHANGED <<stream, trials, status, thrown, failedCheck, _pointCharges, _center,
                   _basisMatrix, _region, procs, pc, sampleResults, samples,
                   shared_vector, vector_lock, _mutex_volume, launched,
                   returned, computed, field>>

\* while (samples-- > 0): the test, and on success the call of _sample, which
\* takes the thread's generator; on failure the thread function returns
Decrement(t) ==
    /\ frame[t].pc = "test"
    /\ samples' = IF pc = "serial" THEN ToSize(samples - 1) ELSE ToInt(samples - 1)
    /\ IF DecrementTest(samples)
       THEN /\ nTrials' = nTrials + 1
            /\ frame' = [frame EXCEPT ![t] = [IdleFrame EXCEPT !.pc = "lock_volume",
                            !.pre = samples, !.trial = nTrials + 1]]
       ELSE /\ nTrials' = nTrials
            /\ frame' = [frame EXCEPT ![t] = [IdleFrame EXCEPT !.pc = "done",
                            !.pre = samples]]
    /\ IF DecrementTest(samples) THEN Draw(t) ELSE ThreadEnd(t)
    /\ UNCHANGED <<stream, trials, status, thrown, failedCheck, config, procs, pc, sampleResults,
                   shared_vector, vector_lock, _mutex_volume, launched,
                   returned, computed, field>>

\* mutant: a worker calls _sample with the lock of shared_vector held
LockVolume_UnderVectorLock(t) ==
    /\ frame[t].pc = "lock_volume"
    /\ _mutex_volume = NoThread
    /\ _mutex_volume' = t
    /\ IF t = 0 THEN vector_lock' = vector_lock
       ELSE vector_lock = NoThread /\ vector_lock' = t
    /\ frame' = [frame EXCEPT ![t].pc = "random_point"]
    /\ UNCHANGED <<stream, generator, obtained, trials, status, thrown, failedCheck, config, procs, pc, sampleResults, samples,
                   shared_vector, launched, returned, nTrials,
                   computed, field>>

\* std::unique_lock<std::mutex> lock(_mutex_volume)
LockVolume(t) ==
    /\ frame[t].pc = "lock_volume"
    /\ _mutex_volume = NoThread
    /\ _mutex_volume' = t
    /\ frame' = [frame EXCEPT ![t].pc = "random_point"]
    /\ UNCHANGED <<stream, generator, obtained, trials, status, thrown, failedCheck, config, procs, pc, sampleResults, samples,
                   shared_vector, vector_lock, launched, returned, nTrials,
                   computed, field>>

\* mutant: the lock is not released when the point has been drawn
RandomPoint_KeepsLock(t) ==
    /\ frame[t].pc = "random_point"
    /\ \E p \in RandomPoints(_region), m \in RandomDistances :
        frame' = [frame EXCEPT ![t].pc = "loop", ![t].maxSteps = m,
                               ![t].initialPosition = p,
                               ![t].finalPosition = p, ![t].steps = 0]
    /\ _mutex_volume' = _mutex_volume
    /\ UNCHANGED <<stream, generator, obtained, trials, status, thrown, failedCheck, config, procs, pc, sampleResults, samples,
                   shared_vector, vector_lock, launched, returned, nTrials,
                   computed, field>>

\* initialPosition = _region->randomPoint(); the lock's scope ends;
\* finalPosition = initialPosition; steps = 0.  The value of maxSteps, a
\* local no other thread reads, is chosen here.
RandomPoint(t) ==
    /\ frame[t].pc = "random_point"
    /\ \E p \in RandomPoints(_region), m \in RandomDistances :
        frame' = [frame EXCEPT ![t].pc = "loop", ![t].maxSteps = m,
                               ![t].initialPosition = p,
                               ![t].finalPosition = p, ![t].steps = 0]
    /\ _mutex_volume' = NoThread
    /\ UNCHANGED <<stream, generator, obtained, trials, status, thrown, failedCheck, config, procs, pc, sampleResults, samples,
                   shared_vector, vector_lock, launched, returned, nTrials,
                   computed, field>>

\* the value _sample returns from (initialPosition, finalPosition)
ReturnValue(trial, initialPosition, finalPosition) ==
    LET v == SampleValue(initialPosition, finalPosition, _pointCharges)
    IN  [distance |-> v.distance, curvature |-> v.curvature, trial |-> trial]

\* one iteration of the integration loop: the test, then the body
Advance(t) ==
    /\ frame[t].pc = "loop"
    /\ \E c \in {LoopTest(_region, frame[t].finalPosition, frame[t].steps, frame[t].maxSteps)} :
        /\ c.go
        /\ frame' = [frame EXCEPT ![t].steps = c.steps,
                        ![t].advanced = @ + 1,
                        ![t].finalPosition = _next(frame[t].finalPosition, _pointCharges)]
    /\ UNCHANGED <<stream, generator, obtained, trials, status, thrown, failedCheck, config, procs, pc, sampleResults, samples,
                   shared_vector, vector_lock, _mutex_volume, launched, returned,
                   nTrials, computed, field>>

\* the failing loop test
ExitLoop(t) ==
    /\ frame[t].pc = "loop"
    /\ \E c \in {LoopTest(_region, frame[t].finalPosition, frame[t].steps, frame[t].maxSteps)} :
        /\ ~c.go
        /\ frame' = [frame EXCEPT ![t].pc = "return", ![t].steps = c.steps]
    /\ UNCHANGED <<stream, generator, obtained, trials, status, thrown, failedCheck, config, procs, pc, sampleResults, samples,
                   shared_vector, vector_lock, _mutex_volume, launched, returned,
                   nTrials, computed, field>>

\* the return statement of _sample; field records the electricField call
\* of the second _curvature call
ReturnSample(t) ==
    /\ frame[t].pc = "return"
    /\ \E s \in {ReturnValue(frame[t].trial, frame[t].initialPosition,
                             frame[t].finalPosition)} :
        /\ frame' = [frame EXCEPT ![t] = [IdleFrame EXCEPT !.pc = "computed", !.s = s,
                                          !.pre = frame[t].pre, !.trial = frame[t].trial]]
        /\ computed' = computed \cup {s}
    /\ field' = [position |-> frame[t].initialPosition,
                 value |-> electricField(frame[t].initialPosition, _pointCharges)]
    /\ UNCHANGED <<stream, generator, obtained, trials, status, thrown, failedCheck, config, procs, pc, sampleResults, samples,
                   shared_vector, vector_lock, _mutex_volume, launched, returned,
                   nTrials>>

\* _sample from the random point on, in one step: maxSteps and the point are
\* drawn and the lock released; the loop and the return statement read the
\* configuration and the thread's locals only
SampleRest(t) ==
    /\ frame[t].pc = "random_point"
    /\ \E p \in RandomPoints(_region), m \in RandomDistances :
       \E v \in {trials[<<p, m>>]} :
       \E s \in {[distance |-> v.distance, curvature |-> v.curvature,
                   trial |-> frame[t].trial]} :
        /\ frame' = [frame EXCEPT ![t] = [IdleFrame EXCEPT !.pc = "computed", !.s = s,
                                          !.pre = frame[t].pre, !.trial = frame[t].trial]]
        /\ computed' = computed \cup {s}
    /\ _mutex_volume' = NoThread
    /\ UNCHANGED <<stream, generator, obtained, trials, status, thrown, failedCheck, config, procs, pc, sampleResults, samples,
                   shared_vector, vector_lock, launched, returned, nTrials, field>>

\* serial path: sampleResults.push_back(_sample())
PushBackSerial ==
    /\ pc = "serial"
    /\ frame[0].pc = "computed"
    /\ sampleResults' = push_back(sampleResults, frame[0].s)
    /\ frame' = [frame EXCEPT ![0] = [IdleFrame EXCEPT !.pc = "test"]]
    /\ UNCHANGED <<stream, generator, obtained, trials, status, thrown, failedCheck, config, procs, pc, samples, shared_vector,
                   vector_lock, _mutex_volume, launched, returned, nTrials,
                   computed, field>>

\* mutant: lock() does not wait for the lock to be free
LockVector_NoExclusion(t) ==
    /\ t # 0
    /\ frame[t].pc = "computed"
    /\ vector_lock' = t
    /\ frame' = [frame EXCEPT ![t].pc = "push"]
    /\ UNCHANGED <<stream, generator, obtained, trials, status, thrown, failedCheck, config, procs, pc, sampleResults, samples,
                   shared_vector, _mutex_volume, launched, returned, nTrials,
                   computed, field>>

\* worker: auto vector_handler = shared_vector.lock()
LockVector(t) ==
    /\ t # 0
    /\ frame[t].pc = "computed"
    /\ vector_lock = NoThread
    /\ vector_lock' = t
    /\ frame' = [frame EXCEPT ![t].pc = "push"]
    /\ UNCHANGED <<stream, generator, obtained, trials, status, thrown, failedCheck, config, procs, pc, sampleResults, samples,
                   shared_vector, _mutex_volume, launched, returned, nTrials,
                   computed, field>>

\* mutant: the handle is never released
PushBack_KeepsLock(t) ==
    /\ frame[t].pc = "push"
    /\ shared_vector' = push_back(shared_vector, frame[t].s)
    /\ frame' = [frame EXCEPT ![t] = [IdleFrame EXCEPT !.pc = "test"]]
    /\ UNCHANGED <<stream, generator, obtained, trials, status, thrown, failedCheck, config, procs, pc, sampleResults,
                   samples, vector_lock, _mutex_volume, launched, returned, nTrials,
                   computed, field>>

\* worker: vector_handler->push_back(s); the handle's scope ends
PushBack(t) ==
    /\ frame[t].pc = "push"
    /\ shared_vector' = push_back(shared_vector, frame[t].s)
    /\ vector_lock' = NoThread
    /\ frame' = [frame EXCEPT ![t] = [IdleFrame EXCEPT !.pc = "test"]]
    /\ UNCHANGED <<stream, generator, obtained, trials, status, thrown, failedCheck, config, procs, pc, sampleResults, samples,
                   _mutex_volume, launched, returned, nTrials, computed, field>>

\* mutant: one worker is launched even when procs is 0
Launch_AtLeastOne ==
    /\ pc = "parallel"
    /\ launched < procs \/ (procs = 0 /\ launched = 0)
    /\ launched' = launched + 1
    /\ frame' = [frame EXCEPT ![launched + 1].pc = "test"]
    /\ UNCHANGED <<stream, generator, obtained, trials, status, thrown, failedCheck, config, procs, pc, sampleResults, samples,
                   shared_vector, vector_lock, _mutex_volume, returned, nTrials,
                   computed, field>>

\* for (i < procs) workers.emplace_back(std::thread(...)): one iteration
Launch ==
    /\ pc = "parallel"
    /\ launched < procs
    /\ launched' = launched + 1
    /\ frame' = [frame EXCEPT ![launched + 1].pc = "test"]
    /\ UNCHANGED <<stream, generator, obtained, trials, status, thrown, failedCheck, config, procs, pc, sampleResults, samples,
                   shared_vector, vector_lock, _mutex_volume, returned, nTrials,
                   computed, field>>

\* mutant: the thread is not waited for
Joinable_NoWait(t) == TRUE

\* thread.join() returns once the thread has ended
Joinable(t) == frame[t].pc = "done"

\* for (auto &thread : workers) thread.join();
\* { auto vector_handle = shared_vector.lock(); sampleResults = *vector_handle; }
\* return sampleResults;
JoinAndReturn ==
    /\ pc = "parallel"
    /\ launched = procs
    /\ \A t \in 1..launched : Joinable(t)
    /\ vector_lock = NoThread
    /\ sampleResults' = shared_vector
    /\ returned' = shared_vector
    /\ pc' = "returned"
    /\ UNCHANGED <<stream, generator, obtained, trials, status, thrown, failedCheck, config, procs, samples, shared_vector,
                   vector_lock, _mutex_volume, launched, frame, nTrials, computed, field>>

\* serial path: the loop has ended; return sampleResults;
ReturnSerial ==
    /\ pc = "serial"
    /\ frame[0].pc = "done"
    /\ returned' = sampleResults
    /\ pc' = "returned"
    /\ UNCHANGED <<stream, generator, obtained, trials, status, thrown, failedCheck, config, procs, sampleResults, samples,
                   shared_vector, vector_lock, _mutex_volume, launched, frame,
                   nTrials, computed, field>>

ThreadStep(t) ==
    \/ Decrement(t)
    \/ LockVolume(t)
    \/ SampleRest(t)
    \/ LockVector(t)
    \/ PushBack(t)

CallerStep ==
    \/ PushBackSerial
    \/ ReturnSerial
    \/ Launch
    \/ JoinAndReturn

Next ==
    \/ \E f \in ProteinFiles, o \in OptionsFiles : Construct(f, o)
    \/ \E p \in 0..MaxProcs : Call(p)
    \/ \E t \in Threads : ThreadStep(t)
    \/ CallerStep

Spec == Init /\ [][Next]_vars

\* ------------------------------------------- one serial trial, step by step
\* Systems with more charge sets than Spec has; calculateTopology(1) runs on
\* them with the integration loop taken one iteration at a time.
TrialOptionsFiles ==
    {<<VolumeLine("box", TheBox), SampleLine(1)>>,
     <<SampleLine(2), VolumeLine("box", TheBox), CenterLine(<<1, 0, 0>>)>>}
TrialProteinFiles ==
    {<<PdbLine("ATOM", cx, q)>> : cx \in -MaxCoordinate..MaxCoordinate, q \in {-1, 1}}
    \cup {<<PdbLine("ATOM", -2, 1), PdbLine("HETATM", 2, 1)>>,
          <<PdbLine("ATOM", -2, 1), PdbLine("HETATM", 2, -1)>>}

InitTrial ==
    /\ \E f \in TrialProteinFiles, o \in TrialOptionsFiles :
       \E c \in {Constructed(f, o)} :
        /\ status = c.status /\ thrown = c.thrown /\ failedCheck = c.failedCheck
        /\ _pointCharges = c.sys.pointCharges
        /\ _center = c.sys.center
        /\ _basisMatrix = c.sys.basisMatrix
        /\ _region = c.sys.region
        /\ _numberOfSamples = c.sys.numberOfSamples
    /\ procs = 0 /\ pc = "idle"
    /\ sampleResults = <<>> /\ samples = 0 /\ shared_vector = <<>>
    /\ vector_lock = NoThread /\ _mutex_volume = NoThread
    /\ launched = 0
    /\ frame = [t \in Threads |-> IdleFrame]
    /\ returned = <<>> /\ nTrials = 0 /\ computed = {} /\ field = NoField
    /\ trials = <<>>
    /\ stream = NoStream
    /\ generator = [t \in Threads |-> NoGenerator]
    /\ obtained = [t \in Threads |-> {}]

NextTrial ==
    \/ Call(1)
    \/ Decrement(0)
    \/ LockVolume(0)
    \/ RandomPoint(0)
    \/ Advance(0)
    \/ ExitLoop(0)
    \/ ReturnSample(0)
    \/ PushBackSerial
    \/ ReturnSerial

SpecTrial == InitTrial /\ [][NextTrial]_vars

\* ------------------------------ the engine with _sample taken step by step
\* Spec with SampleRest replaced by the steps it is made of, so that the
\* threads interleave inside _sample.
ThreadStepInSample(t) ==
    \/ Decrement(t)
    \/ LockVolume(t)
    \/ RandomPoint(t)
    \/ Advance(t)
    \/ ExitLoop(t)
    \/ ReturnSample(t)
    \/ LockVector(t)
    \/ PushBack(t)

\* the System of this specification: the unit box, two samples and one
\* charge, constructed before the first step
InitInSample ==
    /\ \E c \in {Constructed(<<PdbLine("REMARK", 0, 0), PdbLine("ATOM", -2, -1)>>,
                              <<VolumeLine("box", UnitBox), SampleLine(2)>>)} :
        /\ status = c.status /\ thrown = c.thrown /\ failedCheck = c.failedCheck
        /\ _pointCharges = c.sys.pointCharges
        /\ _center = c.sys.center
        /\ _basisMatrix = c.sys.basisMatrix
        /\ _region = c.sys.region
        /\ _numberOfSamples = c.sys.numberOfSamples
    /\ procs = 0 /\ pc = "idle"
    /\ sampleResults = <<>> /\ samples = 0 /\ shared_vector = <<>>
    /\ vector_lock = NoThread /\ _mutex_volume = NoThread
    /\ launched = 0
    /\ frame = [t \in Threads |-> IdleFrame]
    /\ returned = <<>> /\ nTrials = 0 /\ computed = {} /\ field = NoField
    /\ trials = <<>>
    /\ stream = NoStream
    /\ generator = [t \in Threads |-> NoGenerator]
    /\ obtained = [t \in Threads |-> {}]

NextInSample ==
    \/ \E p \in 0..MaxProcs : Call(p)
    \/ \E t \in Threads : ThreadStepInSample(t)
    \/ CallerStep

SpecInSample == InitInSample /\ [][NextInSample]_vars

\* --------------------------------- the constructor, one options line a step
\* System::System with _loadOptions taken line by line: status is "loading"
\* inside forEachLineIn and "options_loaded" once _loadOptions has returned.
MaxLines == 3

BasisVectors == {<<0, 1, 0>>, <<1, 1, 0>>}

\* the lines an options file of the model is made of
OptionLines ==
    {CenterLine(<<1, 0, 0>>), OtherLine, SampleLine(1),
     VolumeLine("box", UnitBox), VolumeLine("sphere", <<2, 0, 0>>)}
    \cup {V1Line(v) : v \in BasisVectors} \cup {V2Line(v) : v \in BasisVectors}

LoadOptionsFiles ==
    UNION {[1..n -> OptionLines] : n \in 0..MaxLines}

\* the members, as the record the load operators work on
Members ==
    [pointCharges |-> _pointCharges, center |-> _center, basisMatrix |-> _basisMatrix,
     region |-> _region, numberOfSamples |-> _numberOfSamples]

\* the constructor up to the call of forEachLineIn in _loadOptions
OpenOptions(optionsFile) ==
    /\ status = "unbuilt"
    /\ status' = "loading"
    /\ stream' = [lines |-> optionsFile, read |-> 0]
    /\ UNCHANGED <<call, generator, obtained, trials, thrown, failedCheck, config>>

\* the line forEachLineIn hands to the lambda next
NextLine == stream.lines[stream.read + 1]
\* the line it handed last
LastLine == stream.lines[stream.read]
EndOfFile == stream.read = Len(stream.lines)

\* the lambda of _loadOptions on the next line of the file
ReadOptionLine ==
    /\ status = "loading"
    /\ ~EndOfFile
    /\ SetConfig(OptionsLambda(Members, NextLine))
    /\ stream' = [stream EXCEPT !.read = @ + 1]
    /\ UNCHANGED <<call, generator, obtained, trials, status, thrown, failedCheck>>

\* mutant: the third column is left as it is
EndOfOptions_KeepsV3 ==
    /\ status = "loading"
    /\ EndOfFile
    /\ status' = "options_loaded"
    /\ UNCHANGED <<call, generator, obtained, trials, stream, thrown, failedCheck, config>>

\* the file has ended: the third column is computed and _loadOptions returns
EndOfOptions ==
    /\ status = "loading"
    /\ EndOfFile
    /\ _basisMatrix' = [_basisMatrix EXCEPT
                            ![3] = VCross(_basisMatrix[1], _basisMatrix[2])]
    /\ status' = "options_loaded"
    /\ UNCHANGED <<call, generator, obtained, trials, stream, thrown, failedCheck,
                   _pointCharges, _center, _region, _numberOfSamples>>

\* the rest of the constructor; no call follows under this specification
\* and the table of trials is not computed
ConstructRest(proteinFile) ==
    /\ status = "options_loaded"
    /\ \E c \in {AfterOptions(Members, proteinFile)} :
        /\ status' = c.status
        /\ thrown' = c.thrown
        /\ failedCheck' = c.failedCheck
        /\ SetConfig(c.sys)
    /\ UNCHANGED <<call, generator, obtained, trials, stream>>

NextLoad ==
    \/ \E o \in LoadOptionsFiles : OpenOptions(o)
    \/ ReadOptionLine
    \/ EndOfOptions
    \/ \E f \in ProteinFiles : ConstructRest(f)

SpecLoad == Init /\ [][NextLoad]_vars

\* ------------------------------------- every sample count a file can hold
\* Systems whose sample line holds any int, the negative ones included, and
\* the calls on them.
NextCount ==
    \/ \E n \in IntMin..IntMax :
           Construct(<<PdbLine("ATOM", -2, -1)>>,
                     <<VolumeLine("box", UnitBox), SampleLine(n)>>)
    \/ \E p \in 0..MaxProcs : Call(p)
    \/ \E t \in Threads : ThreadStep(t)
    \/ CallerStep

SpecCount == Init /\ [][NextCount]_vars

\* every thread keeps running, and so does the caller
FairSpec ==
    Spec /\ WF_vars(CallerStep) /\ \A t \in Threads : WF_vars(ThreadStep(t))

\* ----------------------------------------------------------------- claims
SampleFinite(s) == IsFinite(s.distance) /\ IsFinite(s.curvature)
Occurrences(vec, s) == Cardinality({i \in DOMAIN vec : vec[i] = s})
InTrial(t) == frame[t].pc \in {"lock_volume", "random_point", "loop", "return", "computed", "push"}

\* C1: the vector calculateTopology returns has exactly _numberOfSamples
\* elements, on the serial and on the parallel path.
C1_ReturnsRequestedCount ==
    pc = "returned" /\ procs >= 1 => Len(returned) = _numberOfSamples

\* C2: on the parallel path a worker is inside a trial only after reading a
\* counter value > 0 and has ended only after reading one <= 0; the _sample()
\* calls number at most _numberOfSamples at any time and exactly
\* _numberOfSamples when the call returns.
C2_TrialsEqualRequested ==
    pc \in {"parallel", "returned"} /\ procs > 1 =>
        /\ \A t \in 1..MaxProcs :
            /\ InTrial(t) => frame[t].pre > 0
            /\ frame[t].pc = "done" => frame[t].pre <= 0
        /\ nTrials <= _numberOfSamples
        /\ pc = "returned" => nTrials = _numberOfSamples

\* a parallel call has returned after every worker read an exhausted counter
C2_Witness ==
    /\ pc = "returned" /\ procs = MaxProcs /\ procs > 1
    /\ nTrials = MaxSamples
    /\ samples = -procs

\* C3: when a parallel call has returned, every launched worker has ended,
\* every value a trial computed is in the returned vector exactly once, every
\* computed element of the vector is such a value, and the shared vector holds
\* nothing that the returned copy lacks.
C3_JoinBarrier ==
    pc = "returned" /\ procs # 1 =>
        /\ launched = procs
        /\ \A t \in 1..launched : frame[t].pc = "done"
        /\ \A s \in computed : Occurrences(returned, s) = 1
        /\ \A i \in DOMAIN returned : returned[i].trial # 0 => returned[i] \in computed
        /\ Cardinality(computed) = nTrials
        /\ shared_vector = returned

\* a parallel call has returned the results of two trials
C3_Witness ==
    /\ pc = "returned" /\ procs = 2
    /\ Cardinality(computed) = 2
    /\ \E i, j \in DOMAIN returned : returned[i].trial = 1 /\ returned[j].trial = 2

\* C4: every call of calculateTopology returns, when every thread and the
\* caller keep being scheduled.
C4_CallReturns == (pc \in {"serial", "parallel"}) ~> (pc = "returned")

\* a call with the most workers and the most samples is under way, all
\* workers launched and one of them waiting for the region lock
C4_Witness ==
    /\ pc = "parallel" /\ procs = MaxProcs /\ launched = MaxProcs
    /\ _numberOfSamples = MaxSamples
    /\ \E t, u \in 1..MaxProcs : _mutex_volume = t /\ frame[u].pc = "lock_volume"

\* C5: with procs = 1 exactly _numberOfSamples trials run and element i of
\* the returned vector is the value of the i-th _sample() call.
C5_SerialCallOrder ==
    pc = "returned" /\ procs = 1 =>
        /\ nTrials = _numberOfSamples
        /\ \A i \in 1.._numberOfSamples :
            /\ i \in DOMAIN returned
            /\ returned[i].trial = i
            /\ returned[i] \in computed

\* C6: the constructor throws when there is no region or no charge, the two
\* failures throw different exceptions, and calculateTopology runs only on a
\* System with a region and at least one charge.
C6_ConstructionFailsDistinctly ==
    /\ status = "built" => _region # nullptr /\ _pointCharges # <<>>
    /\ pc # "idle" => status = "built" /\ _region # nullptr /\ _pointCharges # <<>>
    /\ status = "thrown" =>
        /\ thrown # ""
        /\ failedCheck = "region" => _region = nullptr /\ thrown # ChargesCheckThrows
        /\ failedCheck = "charges" => _pointCharges = <<>> /\ thrown # RegionCheckThrows

\* C7: a trial with a non-finite result counts like any other: while the
\* counter is not exhausted it has gone down by one per trial, no exception
\* is raised, and when the call returns _numberOfSamples trials have run and
\* every non-finite value computed is in the returned vector exactly once.
C7_NonFiniteCounts ==
    pc # "idle" /\ procs >= 1 =>
        /\ thrown = ""
        /\ samples \in 0.._numberOfSamples => samples = _numberOfSamples - nTrials
        /\ pc = "returned" =>
            /\ nTrials = _numberOfSamples
            /\ \A s \in computed : ~SampleFinite(s) => Occurrences(returned, s) = 1

\* a call has returned a non-finite and a finite trial result
C7_Witness ==
    /\ pc = "returned"
    /\ \E i, j \in DOMAIN returned :
        /\ ~SampleFinite(returned[i])
        /\ returned[j].trial # 0 /\ SampleFinite(returned[j])

\* 1/(4 pi epsilon)
CoulombK == DDiv(D(1), FourPiPermSpace)

\* C8: the field _curvature evaluates at a point where it is finite is k
\* times the Coulomb sum over the charges, k = 1/(4 pi epsilon).
C8_FieldIsKTimesCoulombSum ==
    field # NoField /\ VFinite(field.value) =>
        field.value = VScale(CoulombK, CoulombSum(_pointCharges, field.position))

Diagonal2(region) ==
    DAdd(DAdd(DMul(region.dims[1], region.dims[1]), DMul(region.dims[2], region.dims[2])),
         DMul(region.dims[3], region.dims[3]))

\* C10 as claimed: every distance returned is at most the box's diagonal
\* (a NaN distance, which compares with nothing, is let through).
C10_DistanceWithinDiagonal ==
    \A i \in DOMAIN returned :
        \/ IsNaN(returned[i].distance)
        \/ DLe(DMul(returned[i].distance, returned[i].distance), Diagonal2(_region))

\* distance <= diagonal + StepLength
WithinDiagonalPlusStep(distance, region) ==
    LET over == DSub(distance, D(StepLength))
    IN  DLe(over, D(0)) \/ DLe(DMul(over, over), Diagonal2(region))

\* C10, amended: every distance returned that is a number is at most the
\* box's diagonal plus the length of one integration step.
C10_DistanceWithinDiagonalPlusStep ==
    \A i \in DOMAIN returned :
        IsNaN(returned[i].distance) \/ WithinDiagonalPlusStep(returned[i].distance, _region)

\* a returned path that left the box on its last step, longer than the diagonal
C10_Witness ==
    \E i \in DOMAIN returned :
        /\ IsFinite(returned[i].distance)
        /\ ~DLe(DMul(returned[i].distance, returned[i].distance), Diagonal2(_region))

\* C11: when the integration loop has ended, the position is outside the
\* region or the loop has advanced the position maxSteps times (a path that
\* stays inside is advanced exactly maxSteps times), and it has never
\* advanced it more than maxSteps times.
C11_AdvancedMaxStepsTimes ==
    /\ \A t \in Threads : frame[t].advanced <= frame[t].maxSteps
    /\ \A t \in Threads :
        frame[t].pc = "return" =>
            \/ ~isInside(_region, frame[t].finalPosition)
            \/ frame[t].advanced = frame[t].maxSteps

\* C12: at most one thread at a time is appending to shared_vector, a thread
\* appends only while it holds the vector's lock, and a thread holds that
\* lock only for the append: never at the loop test and never in _sample.
C12_AppendIsExclusive ==
    /\ Cardinality({t \in Threads : frame[t].pc = "push"}) <= 1
    /\ \A t \in 1..MaxProcs : frame[t].pc = "push" => vector_lock = t
    /\ \A t \in Threads : vector_lock = t => frame[t].pc = "push"

\* a worker holds the vector's lock while another is inside _sample
C12_Witness ==
    \E t, u \in 1..MaxProcs :
        /\ t # u /\ vector_lock = t /\ frame[t].pc = "push"
        /\ frame[u].pc = "random_point"

\* C13: at most one thread at a time is at the call of randomPoint(), a
\* thread is there only while it holds _mutex_volume, and a thread holds
\* _mutex_volume only there: not in the integration loop, not at the return
\* statement with its _curvature calls, not anywhere else.
C13_RandomPointIsExclusive ==
    /\ Cardinality({t \in Threads : frame[t].pc = "random_point"}) <= 1
    /\ \A t \in Threads : frame[t].pc = "random_point" => _mutex_volume = t
    /\ \A t \in Threads : _mutex_volume = t => frame[t].pc = "random_point"

\* a worker is at randomPoint() while another, its point drawn, is in the
\* integration loop and has advanced
C13_Witness ==
    \E t, u \in 1..MaxProcs :
        /\ t # u /\ _mutex_volume = t /\ frame[t].pc = "random_point"
        /\ frame[u].pc = "loop" /\ frame[u].advanced > 0

\* C14: once _loadOptions has returned, the third basis column is the cross
\* product of the first two, whatever v1 and v2 lines the file held and in
\* whatever order; the rest of the constructor keeps it so.
C14_V3IsCrossProduct ==
    status \in {"options_loaded", "built", "thrown"} =>
        _basisMatrix[3] = VCross(_basisMatrix[1], _basisMatrix[2])

\* a built System whose file set v1 and v2, the third column no longer the
\* default one
C14_Witness ==
    /\ status = "built"
    /\ _basisMatrix[1] # Identity[1]
    /\ _basisMatrix[2] # Identity[2]
    /\ _basisMatrix[3] # Identity[3]

\* the keywords the lambda of _loadOptions tests a line for
Keywords == {"center", "v1", "v2", "volume", "sample"}

\* C15: a line that begins with none of the keywords is read without an
\* error and leaves center, basis, region and sample count as they were; a
\* volume line whose shape is not box leaves the region as it was.
C15_UnrecognisedLineIsIgnored ==
    [][(status = "loading" /\ ~EndOfFile /\ stream'.read = stream.read + 1) =>
          /\ NextLine.key \notin Keywords =>
                config' = config /\ status' = "loading" /\ thrown' = ""
          /\ (NextLine.key = "volume" /\ NextLine.shape # "box") =>
                _region' = _region /\ status' = "loading" /\ thrown' = ""]_vars

\* an unrecognised line has just been read, after lines that set the
\* center and the region, and the loading goes on
C15_Witness ==
    /\ status = "loading"
    /\ stream.read > 0
    /\ LastLine.key \notin Keywords
    /\ _center # NewSystem.center
    /\ _region # nullptr
    /\ thrown = ""

\* C16: the draw of maxSteps uses a generator owned by the calling thread. A
\* thread has a generator only once it has called randomNumberGenerator(),
\* every call hands it that one instance, and no instance is handed to two
\* threads.
C16_GeneratorIsThreadOwned ==
    /\ \A t \in Threads : Cardinality(obtained[t]) <= 1
    /\ \A t \in Threads : generator[t] # NoGenerator <=> obtained[t] # {}
    /\ \A t \in Threads : generator[t] # NoGenerator => obtained[t] = {generator[t]}
    /\ \A t, u \in Threads : t # u => obtained[t] \cap obtained[u] = {}

\* two workers have drawn, each from its own generator, while the calling
\* thread still owns the one an earlier serial call made
C16_Witness ==
    /\ pc = "parallel"
    /\ generator[0] # NoGenerator
    /\ \E t, u \in 1..MaxProcs :
        /\ t # u
        /\ obtained[t] # {} /\ obtained[u] # {}

\* a worker launched by the call that has not ended
Running(t) == t \in 1..launched /\ frame[t].pc # "done"

\* thread t is at a statement that waits for no lock, or the lock it waits
\* for can be taken
CanStep(t) ==
    \/ frame[t].pc \in {"test", "random_point", "loop", "return", "push"}
    \/ ENABLED LockVolume(t)
    \/ ENABLED LockVector(t)

\* C17: no thread holds _mutex_volume and the lock of shared_vector at the
\* same time, and the parallel engine does not deadlock: whenever some
\* worker has not ended, some worker can take a step.
C17_LocksNeverNested ==
    /\ \A t \in Threads : ~(_mutex_volume = t /\ vector_lock = t)
    /\ (\E t \in Threads : Running(t)) => \E t \in Threads : Running(t) /\ CanStep(t)

\* both locks are held, by two workers, one waiting for neither
C17_Witness ==
    \E t, u \in 1..MaxProcs :
        /\ t # u /\ Running(t) /\ Running(u)
        /\ vector_lock = t /\ _mutex_volume = u

\* C18: a call that gets past the construction of sampleResults has a sample
\* count that int holds; the atomic counter of the parallel path starts at
\* that count (it is the count less the decrements made so far), and a call
\* with one worker or more has run as many trials as the count when it
\* returns, on the serial and on the parallel path alike.
C18_CounterHoldsSampleCount ==
    /\ pc \in {"serial", "parallel", "returned"} => _numberOfSamples <= IntMax
    /\ (pc \in {"parallel", "returned"} /\ procs # 1) =>
           samples + nTrials + Cardinality({t \in 1..launched : frame[t].pc = "done"})
               = _numberOfSamples
    /\ (pc = "returned" /\ procs >= 1) => nTrials = _numberOfSamples

\* a parallel call on the largest count an int holds has returned
C18_Witness ==
    /\ pc = "returned" /\ procs > 1
    /\ _numberOfSamples = IntMax
    /\ nTrials = IntMax
    /\ samples = -procs

\* C19: calculateTopology(0) takes the parallel branch, launches no worker
\* and runs no trial, and it returns: the vector it returns holds the
\* _numberOfSamples value-initialised elements and no trial result.
C19_NoWorkerNoTrial ==
    (procs = 0 /\ pc \in {"serial", "parallel", "returned"}) =>
        /\ pc # "serial"
        /\ launched = 0
        /\ nTrials = 0
        /\ \A t \in Threads : frame[t].pc = "idle"
        /\ ENABLED JoinAndReturn \/ pc = "returned"
        /\ pc = "returned" =>
            /\ Len(returned) = _numberOfSamples
            /\ \A i \in DOMAIN returned : returned[i] = DefaultSample

\* a call without workers has returned on a System that asks for samples
C19_Witness ==
    /\ pc = "returned" /\ procs = 0
    /\ _numberOfSamples = MaxSamples
    /\ Len(returned) = MaxSamples
====
